---- MODULE Spec2Model ----
(***************************************************************************)
(* autoplaystuff: a VLC stream player driven by an APScheduler background  *)
(* scheduler (src/__main__.py).  The main thread parses the arguments,     *)
(* registers the triggers, starts the scheduler and polls the player until *)
(* the stream has ended; the scheduler's worker threads call               *)
(* StreamPlayer.start / StreamPlayer.stop.                                 *)
(*                                                                         *)
(* Time is counted in minutes since 00:00 UTC of the day the process is    *)
(* started.  The process is started inside minute StartClock (never at     *)
(* second 0 of it), the cron triggers are due at second 0 of their minute. *)
(***************************************************************************)
EXTENDS Integers, Sequences, FiniteSets, TLC

VARIABLES
    argv,       \* the command line: the raw option strings
    mainPc,     \* where the main thread is in _main
    now,        \* the UTC clock, in minutes
    state,      \* the VLC player's state (self._player.get_state())
    call,       \* per caller: where it is inside start()/stop()
    jobs,       \* the jobs of the BackgroundScheduler, in the order added
    running,    \* whether BackgroundScheduler.start() was called
    \* What happened so far (read by the properties only):
    playsRun,   \* play() calls since the last step of a stop() call
    stopsRun,   \* stop() calls of the player since the last step of a start() call
    stopsOkRun, \* those of them that returned
    stopCalls,  \* StreamPlayer.stop() calls entered, counted up to MaxCount
    regTime,    \* the clock when the one-off trigger was registered
    lin,        \* the states start()/stop() could have led to had each run atomically
    phase       \* the trigger whose function returned last, until the other one fires

prog == <<argv, mainPc, now, state, call, jobs, running>>
hist == <<playsRun, stopsRun, stopsOkRun, stopCalls, regTime, lin, phase>>
vars == <<prog, hist>>

----------------------------------------------------------------------------
\* Bounds of the model.

\* The clock stops MaxDays days after the process was started.
MaxDays == 2
\* The main thread's set-up (everything before loop()) crosses at most this
\* many minute boundaries.
MaxSetupMinutes == 2
\* The counters of calls stop counting here.
MaxCount == 2

\* datetime's constants.
HoursPerDay == 24
MinutesPerHour == 60
MinutesPerDay == HoursPerDay * MinutesPerHour

\* The minute the process is started in: 07:29 UTC.
StartClock == 7 * MinutesPerHour + 29
Horizon == StartClock + MaxDays * MinutesPerDay

----------------------------------------------------------------------------
\* Values.

\* Python's None.
None == [tag |-> "None"]

\* An option string "h:m" of the command line; NoColon is a string without
\* a colon, which t.split(":") does not unpack into two values.
Str(h, m) == [tag |-> "str", h |-> h, m |-> m]
NoColon == [tag |-> "str1"]

\* datetime.time(hour, minute) and datetime.timedelta(hours, minutes).
Time(h, m) == [tag |-> "time", hour |-> h, minute |-> m, second |-> 0]
Timedelta(h, m) == [tag |-> "timedelta", minutes |-> h * MinutesPerHour + m]

\* The result of sys.exit(...) inside a type converter.
SysExit == [tag |-> "SystemExit"]

\* The command lines the model starts from.
TimeStrings == {Str(7, 30), Str(19, 30), Str(2, 0)}
StartAtInputs == {None, Str(24, 0)} \cup TimeStrings
StopAtInputs == {None, NoColon} \cup TimeStrings
PlayForInputs == {None, Str(0, 0), Str(0, 1), Str(0, 45), Str(1, 0)}

\* vlc.State, with Buffering folded into Opening; Paused is never entered.
States == {"NothingSpecial", "Opening", "Playing", "Stopped", "Ended", "Error"}

\* Who calls start()/stop(): the main thread (jumpstart, one-off start) and
\* the worker running the job bound to start / to stop.  A job runs at most
\* one instance at a time (add_job's default max_instances).
Callers == {"main", "start", "stop"}
Func(c) == IF c = "stop" THEN "stop" ELSE "start"

----------------------------------------------------------------------------
\* Argument conversion and validation.

to_time(t) ==
    IF t.tag = "str" /\ t.h \in 0..(HoursPerDay - 1) /\ t.m \in 0..(MinutesPerHour - 1)
    THEN Time(t.h, t.m)
    ELSE SysExit

to_timedelta(t) ==
    IF t.tag = "str" THEN Timedelta(t.h, t.m) ELSE SysExit

\* argparse: an absent option is None, a given one is type(string).

start_at == IF argv.start_at = None THEN None ELSE to_time(argv.start_at)
stop_at == IF argv.stop_at = None THEN None ELSE to_time(argv.stop_at)
play_for == IF argv.play_for = None THEN None ELSE to_timedelta(argv.play_for)
jumpstart == argv.jumpstart

\* Python truth value: None is false, timedelta(0) is false, every
\* datetime.time is true.
Truthy(v) ==
    CASE v.tag = "None" -> FALSE
      [] v.tag = "timedelta" -> v.minutes # 0
      [] OTHER -> TRUE

\* parse_arguments: TRUE when it returns, FALSE when it ends in sys.exit.
parse_arguments ==
    /\ SysExit \notin {start_at, stop_at, play_for}
    /\ ~ ~(Truthy(start_at) \/ Truthy(stop_at) \/ Truthy(play_for))
    /\ ~ ((Truthy(start_at) \/ Truthy(stop_at)) /\ Truthy(play_for))
    /\ ~ (~Truthy(play_for) /\ ((start_at = None) # (stop_at = None)))

----------------------------------------------------------------------------
\* Triggers.

\* Mutant: the minute of the time of day is left out.
CronTrigger_NoMinute(t) == [kind |-> "cron", hour |-> t.hour, minute |-> 0, second |-> t.second]

CronTrigger(t) == [kind |-> "cron", hour |-> t.hour, minute |-> t.minute, second |-> t.second]
DateTrigger(t) == [kind |-> "date", run_date |-> t]

\* The minute of the day of a clock value.
MinuteOfDay(t) == t % MinutesPerDay
CronMinute(trg) == trg.hour * MinutesPerHour + trg.minute

\* The first fire time of a cron trigger strictly after clock value t (the
\* clock is never at second 0 of a minute except when a cron job is fired).
NextCron(trg, t) ==
    LET d == (CronMinute(trg) - MinuteOfDay(t)) % MinutesPerDay
    IN  t + (IF d = 0 THEN MinutesPerDay ELSE d)

\* A job not yet given to the job store (the scheduler is not started).
Pending == -1

Job(f, trg) == [func |-> f, trigger |-> trg, next_run_time |-> Pending]

\* Mutant: the job is added twice.
_schedule_repeat_Twice(f, t) ==
    jobs' = Append(Append(jobs, Job(f, CronTrigger(t))), Job(f, CronTrigger(t)))

_schedule_repeat(f, t) == jobs' = Append(jobs, Job(f, CronTrigger(t)))

_schedule_one_off(f, t) == jobs' = Append(jobs, Job(f, DateTrigger(t)))

----------------------------------------------------------------------------
\* The player.

\* self._player.play(): asynchronous, the player opens the stream and
\* reports Playing later.
EnginePlay(s) == IF s \in {"Opening", "Playing"} THEN s ELSE "Opening"

\* Mutant: a stopped player reports Ended.
EngineStop_Ended(s) == "Ended"

\* self._player.stop().
EngineStop(s) == "Stopped"

\* The condition under which start() calls play().
StartGuard(s) == s # "Playing"

\* Mutant: stop() calls stop() whatever the state.
StopGuard_Always(s) == TRUE

\* The condition under which stop() calls stop().
StopGuard(s) == s = "Playing"

Guard(c, s) == IF Func(c) = "start" THEN StartGuard(s) ELSE StopGuard(s)
Engine(c, s) == IF Func(c) = "start" THEN EnginePlay(s) ELSE EngineStop(s)

\* The player on its own: the stream is open, the stream has ended, an error.
Opened(s) == IF s = "Opening" THEN "Playing" ELSE s
Ended(s) == IF s = "Playing" THEN "Ended" ELSE s
Errored(s) == IF s \in {"Opening", "Playing"} THEN "Error" ELSE s

----------------------------------------------------------------------------
\* The record of what happened.

Count(n) == IF n < MaxCount THEN n + 1 ELSE n

\* A step of caller c inside start()/stop(): acted when it called the
\* player's play()/stop(), ok when that call returned.
Counters(c, acted, ok) ==
    IF Func(c) = "start"
    THEN /\ playsRun' = IF acted THEN Count(playsRun) ELSE playsRun
         /\ stopsRun' = 0
         /\ stopsOkRun' = 0
    ELSE /\ playsRun' = 0
         /\ stopsRun' = IF acted THEN Count(stopsRun) ELSE stopsRun
         /\ stopsOkRun' = IF acted /\ ok THEN Count(stopsOkRun) ELSE stopsOkRun

\* start()/stop() run as one atomic step on player state s.
Atomic(c, s) == IF Guard(c, s) THEN Engine(c, s) ELSE s

InCall == {c \in Callers : call[c] # "idle"}

\* lin holds every player state an execution could be in that takes each
\* call made so far as one atomic step somewhere between its entry and its
\* return, with the player's own steps where they happened: x.ok are the
\* calls in progress already taken (as returning normally), x.ex those taken
\* as raising.
LinStep(L, P) ==
    LET open == {q \in L \X P : q[2] \notin (q[1].ok \cup q[1].ex)}
    IN  L \cup {[st |-> Atomic(q[2], q[1].st), ok |-> q[1].ok \cup {q[2]}, ex |-> q[1].ex] : q \in open}
          \cup {[st |-> q[1].st, ok |-> q[1].ok, ex |-> q[1].ex \cup {q[2]}] : q \in open}

Close(L, P) == LinStep(LinStep(LinStep(L, P), P), P)

LinEnter(c) == lin' = Close(lin, InCall \cup {c})

LinReturn(c, ok) ==
    LET kept == {x \in lin : c \in (IF ok THEN x.ok ELSE x.ex)}
    IN  lin' = Close({[st |-> x.st, ok |-> x.ok \ {c}, ex |-> x.ex \ {c}] : x \in kept},
                     InCall \ {c})

LinEngine(L) == lin' = Close(L, InCall)

\* A worker enters the function f of a trigger: the time after the other
\* trigger's function returned is over.
PhaseFire(f) ==
    phase' = IF (f = "start" /\ phase = "stopped") \/ (f = "stop" /\ phase = "started")
             THEN "none"
             ELSE phase

\* Caller c returns from start()/stop().
PhaseReturn(c) ==
    phase' = CASE c = "start" -> "started"
               [] c = "stop" -> "stopped"
               [] OTHER -> phase

----------------------------------------------------------------------------
\* StreamPlayer.start / StreamPlayer.stop.

\* Where the main thread goes on when its start() call returns.
AfterStart(pc) == IF pc = "jumpstart" THEN "run" ELSE "one_off_schedule"

\* Caller c leaves start()/stop().
Return(c) ==
    /\ call' = [call EXCEPT ![c] = "idle"]
    /\ mainPc' = IF c = "main" THEN AfterStart(mainPc) ELSE mainPc

\* Mutant: no except clause; the exception leaves start() and ends the
\* main thread (a worker's is caught by the scheduler's executor).
Except_Propagate(c) ==
    /\ call' = [call EXCEPT ![c] = "idle"]
    /\ mainPc' = IF c = "main" THEN "raised" ELSE mainPc

\* Mutant: the call is made again after an exception.
Except_Retry(c) ==
    /\ call' = [call EXCEPT ![c] = "query"]
    /\ mainPc' = mainPc

\* The except clause of start()/stop(): log the exception and return.
Except(c) == Return(c)

\* get_state() inside start()/stop(): the guard is evaluated on its result.
Query(c) ==
    /\ call[c] = "query"
    /\ IF Guard(c, state)
       THEN /\ call' = [call EXCEPT ![c] = "act"]
            /\ mainPc' = mainPc
            /\ lin' = lin
            /\ phase' = phase
       ELSE /\ Return(c)
            /\ LinReturn(c, TRUE)
            /\ PhaseReturn(c)
    /\ Counters(c, FALSE, FALSE)
    /\ UNCHANGED <<argv, now, state, jobs, running, stopCalls, regTime>>

\* get_state() raises.
QueryRaise(c) ==
    /\ call[c] = "query"
    /\ Except(c)
    /\ LinReturn(c, FALSE)
    /\ PhaseReturn(c)
    /\ Counters(c, FALSE, FALSE)
    /\ UNCHANGED <<argv, now, state, jobs, running, stopCalls, regTime>>

\* play() / stop() on the player.
Act(c) ==
    /\ call[c] = "act"
    /\ state' = Engine(c, state)
    /\ Return(c)
    /\ LinReturn(c, TRUE)
    /\ PhaseReturn(c)
    /\ Counters(c, TRUE, TRUE)
    /\ UNCHANGED <<argv, now, jobs, running, stopCalls, regTime>>

\* play() / stop() raises.
ActRaise(c) ==
    /\ call[c] = "act"
    /\ Except(c)
    /\ LinReturn(c, FALSE)
    /\ PhaseReturn(c)
    /\ Counters(c, TRUE, FALSE)
    /\ UNCHANGED <<argv, now, state, jobs, running, stopCalls, regTime>>

EngineOpened ==
    /\ state = "Opening"
    /\ state' = Opened(state)
    /\ LinEngine({[x EXCEPT !.st = Opened(x.st)] : x \in lin})
    /\ UNCHANGED <<argv, mainPc, now, call, jobs, running>>
    /\ UNCHANGED <<playsRun, stopsRun, stopsOkRun, stopCalls, regTime, phase>>

EngineEnded ==
    /\ state = "Playing"
    /\ state' = Ended(state)
    /\ LinEngine({[x EXCEPT !.st = Ended(x.st)] : x \in lin})
    /\ UNCHANGED <<argv, mainPc, now, call, jobs, running>>
    /\ UNCHANGED <<playsRun, stopsRun, stopsOkRun, stopCalls, regTime, phase>>

EngineError ==
    /\ state \in {"Opening", "Playing"}
    /\ state' = Errored(state)
    /\ LinEngine({[x EXCEPT !.st = Errored(x.st)] : x \in lin})
    /\ UNCHANGED <<argv, mainPc, now, call, jobs, running>>
    /\ UNCHANGED <<playsRun, stopsRun, stopsOkRun, stopCalls, regTime, phase>>

----------------------------------------------------------------------------
\* The main thread.

\* parse_arguments() and the constructors; sys.exit ends the process.
Parse ==
    /\ mainPc = "parse"
    /\ mainPc' = IF ~parse_arguments THEN "exit"
                 ELSE IF Truthy(start_at) THEN "schedule_start"
                 ELSE IF Truthy(play_for) THEN "one_off_start"
                 ELSE "run"
    /\ UNCHANGED <<argv, now, state, call, jobs, running, hist>>

\* repeating_time_schedule, first line.
ScheduleStart ==
    /\ mainPc = "schedule_start"
    /\ _schedule_repeat("start", start_at)
    /\ mainPc' = "schedule_stop"
    /\ UNCHANGED <<argv, now, state, call, running, hist>>

\* repeating_time_schedule, second line.
ScheduleStop ==
    /\ mainPc = "schedule_stop"
    /\ _schedule_repeat("stop", stop_at)
    /\ mainPc' = IF jumpstart THEN "jumpstart" ELSE "run"
    /\ UNCHANGED <<argv, now, state, call, running, hist>>

\* The main thread enters stream_player.start() (jumpstart, or the first
\* line of one_off_interval_schedule).
MainStart ==
    /\ mainPc \in {"jumpstart", "one_off_start"}
    /\ call["main"] = "idle"
    /\ call' = [call EXCEPT !["main"] = "query"]
    /\ LinEnter("main")
    /\ Counters("main", FALSE, FALSE)
    /\ UNCHANGED <<argv, mainPc, now, state, jobs, running, stopCalls, regTime, phase>>

\* one_off_interval_schedule, second line.
OneOffSchedule ==
    /\ mainPc = "one_off_schedule"
    /\ _schedule_one_off("stop", now + play_for.minutes)
    /\ regTime' = now
    /\ mainPc' = "run"
    /\ UNCHANGED <<argv, now, state, call, running>>
    /\ UNCHANGED <<playsRun, stopsRun, stopsOkRun, stopCalls, lin, phase>>

\* next_run_time of a job when the started scheduler takes it over.
FirstRunTime(trg, t) ==
    IF trg.kind = "date" THEN trg.run_date ELSE NextCron(trg, t)

\* run(): BackgroundScheduler.start(), the pending jobs go to the job store.
Run ==
    /\ mainPc = "run"
    /\ running' = TRUE
    /\ jobs' = [i \in DOMAIN jobs |->
                  [jobs[i] EXCEPT !.next_run_time = FirstRunTime(jobs[i].trigger, now)]]
    /\ mainPc' = "loop"
    /\ UNCHANGED <<argv, now, state, call, hist>>

\* The condition under which loop() goes on polling.
LoopGuard(s) == s # "Ended"

\* loop(): the get_state() of the busy loop that ends it.
LoopReturn ==
    /\ mainPc = "loop"
    /\ ~LoopGuard(state)
    /\ mainPc' = "done"
    /\ UNCHANGED <<argv, now, state, call, jobs, running, hist>>

\* loop(): get_state() raises; nothing catches it.
LoopRaise ==
    /\ mainPc = "loop"
    /\ mainPc' = "raised"
    /\ UNCHANGED <<argv, now, state, call, jobs, running, hist>>

----------------------------------------------------------------------------
\* The scheduler thread.

\* The process is alive: the scheduler thread is a daemon of the main thread.
Alive == mainPc \notin {"exit", "done", "raised"}

Due(j) == j.next_run_time # Pending /\ j.next_run_time <= now

\* Mutant: no run time is ever found late.
Misfired_Never(j) == FALSE

\* add_job's default misfire_grace_time is one second: a run time found
\* a minute or more late is dropped.
Misfired(j) == j.next_run_time < now

\* Mutant: a job that fired is armed again for the next day, whatever its
\* trigger.
Rescheduled_Daily(i) == [jobs EXCEPT ![i].next_run_time = now + MinutesPerDay]

\* The jobs with job i rescheduled: a date trigger has no next fire time
\* and its job is removed, a cron trigger fires again the next day.
Rescheduled(i) ==
    IF jobs[i].trigger.kind = "date"
    THEN SubSeq(jobs, 1, i - 1) \o SubSeq(jobs, i + 1, Len(jobs))
    ELSE [jobs EXCEPT ![i].next_run_time = NextCron(jobs[i].trigger, now)]

\* The scheduler finds job i due and submits it to the thread pool: a
\* worker enters the job's function.
Fire(i) ==
    /\ Alive /\ running
    /\ Due(jobs[i]) /\ ~Misfired(jobs[i])
    /\ call[jobs[i].func] = "idle"
    /\ call' = [call EXCEPT ![jobs[i].func] = "query"]
    /\ jobs' = Rescheduled(i)
    /\ LinEnter(jobs[i].func)
    /\ PhaseFire(jobs[i].func)
    /\ Counters(jobs[i].func, FALSE, FALSE)
    /\ stopCalls' = IF jobs[i].func = "stop" THEN Count(stopCalls) ELSE stopCalls
    /\ UNCHANGED <<argv, mainPc, now, state, running, regTime>>

\* Job i is due but its run is dropped: the previous instance is still
\* running (max_instances), or the run time was missed.
Skip(i) ==
    /\ Alive /\ running
    /\ Due(jobs[i])
    /\ Misfired(jobs[i]) \/ call[jobs[i].func] # "idle"
    /\ jobs' = Rescheduled(i)
    /\ UNCHANGED <<argv, mainPc, now, state, call, running, hist>>

----------------------------------------------------------------------------
\* The clock.

NextRunTimes == {jobs[i].next_run_time : i \in DOMAIN jobs}

\* Time passes.  During set-up the clock moves on by a minute; under the
\* started scheduler it moves to the next run time (the scheduler thread
\* sleeps until then and is woken on time).  The busy loop of loop() polls
\* many times a minute: the clock does not move past a poll that ends it.
Tick ==
    /\ Alive
    /\ ~(mainPc = "loop" /\ ~LoopGuard(state))
    /\ IF running
       THEN /\ jobs # <<>>
            /\ \A i \in DOMAIN jobs : ~Due(jobs[i])
            /\ now' \in NextRunTimes
            /\ \A t \in NextRunTimes : now' <= t
       ELSE /\ mainPc # "parse"
            /\ now < StartClock + MaxSetupMinutes
            /\ now' = now + 1
    /\ now' <= Horizon
    /\ UNCHANGED <<argv, mainPc, state, call, jobs, running, hist>>

----------------------------------------------------------------------------

Init ==
    /\ argv \in [start_at : StartAtInputs, stop_at : StopAtInputs,
                 jumpstart : BOOLEAN, play_for : PlayForInputs]
    /\ mainPc = "parse"
    /\ now = StartClock
    /\ state = "NothingSpecial"
    /\ call = [c \in Callers |-> "idle"]
    /\ jobs = <<>>
    /\ running = FALSE
    /\ playsRun = 0
    /\ stopsRun = 0
    /\ stopsOkRun = 0
    /\ stopCalls = 0
    /\ regTime = Pending
    /\ lin = {[st |-> "NothingSpecial", ok |-> {}, ex |-> {}]}
    /\ phase = "none"

\* A thread pool worker (or the main thread inside start()) takes a step.
Player ==
    \E c \in Callers : Query(c) \/ QueryRaise(c) \/ Act(c) \/ ActRaise(c)

Scheduler ==
    \E i \in DOMAIN jobs : Fire(i) \/ Skip(i)

Next ==
    \/ Parse
    \/ ScheduleStart
    \/ ScheduleStop
    \/ MainStart
    \/ OneOffSchedule
    \/ Run
    \/ LoopReturn
    \/ LoopRaise
    \/ Player
    \/ Scheduler
    \/ EngineOpened
    \/ EngineEnded
    \/ EngineError
    \/ Tick

Spec == Init /\ [][Next]_vars

\* The main thread keeps polling and the pool's workers keep running.
FairSpec == Spec /\ WF_vars(LoopReturn) /\ WF_vars(Player)

\* The program with a player that does not fail: no call of the player
\* raises, and a stream that plays neither ends nor breaks.  (loop() then
\* never returns.)
PlayerOk ==
    \E c \in Callers : Query(c) \/ Act(c)

NoFailNext ==
    \/ Parse
    \/ ScheduleStart
    \/ ScheduleStop
    \/ MainStart
    \/ OneOffSchedule
    \/ Run
    \/ PlayerOk
    \/ Scheduler
    \/ EngineOpened
    \/ Tick

NoFailSpec == Init /\ [][NoFailNext]_vars

----------------------------------------------------------------------------
\* The properties.

\* A step in which some caller of start() returns from it.
StartReturns ==
    \E c \in Callers : Func(c) = "start" /\ call[c] # "idle" /\ call'[c] = "idle"

\* A step in which some caller of stop() returns from it.
StopReturns == call["stop"] # "idle" /\ call'["stop"] = "idle"

DailyMode == mainPc \notin {"parse", "exit"} /\ Truthy(start_at)
OneOffMode == mainPc \notin {"parse", "exit"} /\ ~Truthy(start_at) /\ Truthy(play_for)

\* C1 (idempotent start): over consecutive start() calls with no stop() in
\* between, the player's play() is called at most once.  (The claim's second
\* half, the state being Playing when the calls have returned, is not part
\* of the formula: play() is asynchronous.)
C1_IdempotentStart == playsRun <= 1

\* C2 (idempotent stop), as claimed: over consecutive stop() calls with no
\* start() in between, the player's stop() is called at most once.
C2_IdempotentStop == stopsRun <= 1

\* C2, as amended: over consecutive stop() calls with no start() in
\* between, the player's stop() returns at most once; a stop() of the
\* player that raised is called again by the next stop().
C2_StopReturnsOnce == stopsOkRun <= 1

\* C2's case: the second stop() call in a row has called the player's
\* stop() again after the first one's raised.
C2_Witness == stopCalls >= 2 /\ stopsRun = 2 /\ stopsOkRun = 1

\* C3 (critical section): no two start()/stop() calls are at the same time
\* between their get_state() and their play()/stop().
C3_CriticalSection == Cardinality({c \in Callers : call[c] = "act"}) <= 1

\* C4 (interleaving safety): when every start()/stop() call has returned,
\* the player's state is one that the same calls lead to when each of them
\* runs as one atomic step, in an order that agrees with the order of the
\* calls that did not overlap.
C4_Linearizable == InCall = {} => state \in {x.st : x \in lin}

\* The command line was accepted as a daily window / as a one-off interval.
ParsedDaily == mainPc # "parse" /\ parse_arguments /\ Truthy(start_at)
ParsedOneOff == mainPc # "parse" /\ parse_arguments /\ ~Truthy(start_at) /\ Truthy(play_for)

\* The minute of the day option string t names.
StrMinute(t) == t.h * 60 + t.m

\* Job j calls f every day at the time of day option string t names.
IsDaily(j, f, t) ==
    /\ j.func = f
    /\ j.trigger = [kind |-> "cron", hour |-> t.h, minute |-> t.m, second |-> 0]
    /\ running =>
         /\ j.next_run_time >= now
         /\ j.next_run_time - now <= 24 * 60
         /\ j.next_run_time % (24 * 60) = StrMinute(t)

C5_Registered ==
    ParsedDaily =>
        /\ mainPc # "exit"
        /\ mainPc \notin {"schedule_start", "schedule_stop"} =>
             /\ Len(jobs) = 2
             /\ IsDaily(jobs[1], "start", argv.start_at)
             /\ IsDaily(jobs[2], "stop", argv.stop_at)

C5_Rearmed ==
    \A i \in DOMAIN jobs :
        running /\ jobs[i].trigger.kind = "cron" =>
            /\ i \in DOMAIN jobs'
            /\ jobs'[i].next_run_time \in
                 {jobs[i].next_run_time, jobs[i].next_run_time + 24 * 60}

\* C5 (daily window): for every pair of times of day, stop before start
\* included, exactly two triggers are registered, start() due at the start
\* time and stop() due at the stop time; the pair is never rejected, and a
\* trigger that fired is due again at the same time the next day.
C5_DailyWindow == []C5_Registered /\ [][C5_Rearmed]_vars

\* C5's case: a window with stop before start, whose stop trigger has fired
\* on two days and is armed for the third.
C5_Witness ==
    /\ ParsedDaily
    /\ StrMinute(argv.stop_at) < StrMinute(argv.start_at)
    /\ stopCalls = 2
    /\ Len(jobs) = 2
    /\ jobs[2].next_run_time > now

C7_Jumpstart ==
    /\ ParsedDaily
    /\ jumpstart
    /\ StartClock < StrMinute(argv.start_at)
    /\ now < 24 * 60
    /\ stopCalls = 0
    => playsRun <= 1

C8_ReturnsOnEnded == mainPc # "done" /\ mainPc' = "done" => state = "Ended"

\* C8 (wait semantics): loop() returns only on a get_state() that reports
\* Ended, and once the state is Ended while loop() polls, loop() ends,
\* also with triggers firing (it returns; a get_state() that raises ends it
\* too and is not held against the claim here).
C8_WaitSemantics ==
    /\ [][C8_ReturnsOnEnded]_vars
    /\ (mainPc = "loop" /\ state = "Ended") ~> (mainPc \in {"done", "raised"})

C9_Swallowed(c) ==
    /\ call'[c] = "idle"
    /\ jobs' = jobs
    /\ running' = running
    /\ IF c = "main" THEN mainPc' \in {"run", "one_off_schedule"} ELSE mainPc' = mainPc

\* C9 (failures are swallowed): when get_state(), play() or stop() raises
\* inside start()/stop(), the call returns; the jobs stay as they are, and
\* the main thread goes on (with its set-up, or polling in loop()).
C9_FailuresSwallowed ==
    [][\A c \in Callers : QueryRaise(c) \/ ActRaise(c) => C9_Swallowed(c)]_vars

\* C9's case: a daily window with jumpstart whose jumpstart start() raised
\* (the player was never asked to play); later the stop trigger has fired,
\* both triggers are armed and the main thread polls.
C9_Witness ==
    /\ ParsedDaily
    /\ jumpstart
    /\ state = "NothingSpecial"
    /\ mainPc = "loop"
    /\ stopCalls >= 1
    /\ Len(jobs) = 2

\* C10 (zero duration): --play-for 00:00 alone is accepted.
C10_ZeroDuration ==
    /\ argv.play_for = Str(0, 0)
    /\ argv.start_at = None
    /\ argv.stop_at = None
    /\ mainPc # "parse"
    => mainPc # "exit"

\* An option is given on the command line.
Given(raw) == raw # None

\* C11 (one policy kind): parse_arguments returns only when --start-at and
\* --stop-at are both given and --play-for is not, or when --play-for is
\* given and neither --start-at nor --stop-at is; on every other command
\* line the process ends before a trigger is registered.
C11_OnePolicy ==
    /\ mainPc \notin {"parse", "exit"} =>
         \/ Given(argv.start_at) /\ Given(argv.stop_at) /\ ~Given(argv.play_for)
         \/ Given(argv.play_for) /\ ~Given(argv.start_at) /\ ~Given(argv.stop_at)
    /\ mainPc = "exit" => jobs = <<>> /\ ~running

\* No worker runs a trigger's function while the scheduler is not started.
C12_NotBeforeRun ==
    ~running =>
        /\ call["start"] = "idle"
        /\ call["stop"] = "idle"
        /\ stopCalls = 0
        /\ \A i \in DOMAIN jobs : jobs[i].next_run_time = Pending

\* A step that takes job i off its run time (arms it again or removes it).
C12_Changed(i) == i \notin DOMAIN jobs' \/ jobs'[i] # jobs[i]

\* A step in which a worker enters the function of job i.
C12_Fired(i) == call[jobs[i].func] = "idle" /\ call'[jobs[i].func] = "query"

\* The run of job i that is due is late, or the job's last run is not over.
C12_LateOrBusy(i) == jobs[i].next_run_time < now \/ call[jobs[i].func] # "idle"

\* The clock of the started scheduler does not pass a due job.
C12_OnTime == running /\ now' # now => \A i \in DOMAIN jobs : ~Due(jobs[i])

\* C12 (live at run()), as claimed: no trigger's function is run before
\* run() has started the scheduler, also when the due time passes between
\* registration and run(); from then on a trigger leaves its run time only
\* when it is due and by being fired.
C12_EveryDueFires ==
    /\ []C12_NotBeforeRun
    /\ [][C12_OnTime]_vars
    /\ [][\A i \in DOMAIN jobs :
            running /\ C12_Changed(i) => Due(jobs[i]) /\ C12_Fired(i)]_vars

\* C12, as amended: no trigger's function is run before run() has started
\* the scheduler; from then on a due trigger is fired, unless its run time
\* is found late or the previous run of its function is not over: that run
\* is dropped without a call.
C12_LiveAtRun ==
    /\ []C12_NotBeforeRun
    /\ [][C12_OnTime]_vars
    /\ [][\A i \in DOMAIN jobs :
            running /\ C12_Changed(i) =>
                /\ Due(jobs[i])
                /\ IF C12_LateOrBusy(i) THEN call' = call ELSE C12_Fired(i)]_vars

\* C12's case: the due time of the one-off trigger passed between its
\* registration and run(), and the started scheduler dropped it.
C12_Witness ==
    /\ ParsedOneOff
    /\ running
    /\ jobs = <<>>
    /\ stopCalls = 0
    /\ now > regTime + StrMinute(argv.play_for)

\* A step in which stop() has the result of its get_state().
C13_Queried == call["stop"] = "query" /\ call'["stop"] # "query"

\* C13 (stop is a no-op unless Playing): a stop() whose get_state() reports
\* a state other than Playing (or raises) returns without calling the
\* player's stop() and leaves the state as it is; the player's stop() is
\* called only by a stop() that read Playing.
C13_StopNoOp ==
    [][/\ C13_Queried /\ state # "Playing" =>
            /\ call'["stop"] = "idle"
            /\ state' = state
            /\ stopsRun' = stopsRun
       /\ C13_Queried /\ call'["stop"] = "act" => state = "Playing"
       /\ stopsRun' > stopsRun => call["stop"] = "act"]_vars

\* C13's case: the one-off stop() has run and returned while the player was
\* still opening the stream, and the player is still opening it.
C13_Witness ==
    /\ ParsedOneOff
    /\ stopCalls = 1
    /\ call["stop"] = "idle"
    /\ state = "Opening"

\* A step in which a worker enters c, the function of a job that is due
\* now: a date job is discarded, a cron job is due again a day later.
C14_FiredOnce(c) ==
    \E i \in DOMAIN jobs :
        /\ jobs[i].func = c
        /\ jobs[i].next_run_time = now
        /\ IF jobs[i].trigger.kind = "date"
           THEN jobs' = <<>>
           ELSE /\ jobs'[i].trigger = jobs[i].trigger
                /\ jobs'[i].next_run_time = now + MinutesPerDay

\* C14 (no retries): a start()/stop() call that has called play()/stop()
\* returns, whether that call failed or not, and nothing else calls
\* the player; a failing call leaves the jobs as they are.  A worker enters a
\* trigger's function only when the trigger is due, and by then the trigger
\* is armed for the next day (recurring) or discarded (one-off); under the
\* started scheduler no job is ever added.
C14_NoRetry ==
    [][/\ \A c \in Callers :
            /\ call[c] = "act" => call'[c] \in {"act", "idle"}
            /\ QueryRaise(c) \/ ActRaise(c) =>
                 /\ call'[c] = "idle"
                 /\ jobs' = jobs
                 /\ state' = state
            /\ c # "main" /\ call[c] = "idle" /\ call'[c] # "idle" => C14_FiredOnce(c)
       /\ playsRun' > playsRun \/ stopsRun' > stopsRun =>
            \E c \in Callers : call[c] = "act" /\ call'[c] = "idle"
       /\ running => Len(jobs') <= Len(jobs)]_vars

\* C14's case: the stop trigger of a daily window has fired, the player's
\* stop() raised and the player goes on playing; the trigger is due a day
\* after it fired.
C14_Witness ==
    /\ ParsedDaily
    /\ stopsRun = 1
    /\ stopsOkRun = 0
    /\ call["stop"] = "idle"
    /\ state = "Playing"
    /\ Len(jobs) = 2
    /\ jobs[2].next_run_time = now + MinutesPerDay

C15_Kinds == {jobs[i].trigger.kind : i \in DOMAIN jobs}

\* C15 (at most two triggers): never more than two jobs; the cron jobs
\* are those of a daily window, start then stop; a date job is the one stop
\* job of a one-off interval; never jobs of both kinds.
C15_AtMostTwo ==
    /\ Len(jobs) <= 2
    /\ Cardinality(C15_Kinds) <= 1
    /\ "cron" \in C15_Kinds =>
         /\ ParsedDaily
         /\ jobs[1].func = "start"
         /\ Len(jobs) = 2 => jobs[2].func = "stop"
    /\ "date" \in C15_Kinds =>
         /\ ParsedOneOff
         /\ Len(jobs) = 1
         /\ jobs[1].func = "stop"

\* C15's case: both triggers of a daily window are armed after the stop
\* trigger has fired, and the start trigger's function is running.
C15_Witness ==
    /\ ParsedDaily
    /\ running
    /\ Len(jobs) = 2
    /\ stopCalls >= 1
    /\ call["start"] # "idle"

\* C16 (one-shot stays stopped): in a one-off interval, once the trigger's
\* stop() has returned the player is not Playing, whenever the player
\* reaches Playing after play().
C16_StaysStopped ==
    ParsedOneOff /\ stopCalls >= 1 /\ call["stop"] = "idle" => state # "Playing"

\* C17 (a stop() never ends the wait): the player's stop() leaves the
\* state Stopped, which is not Ended; the state becomes Ended only by a step
\* of the player itself, never by a step of start() or stop(); loop() does
\* not return while the state is not Ended; and in a one-off interval no
\* job is left once the trigger has fired, so nothing but the player itself
\* can end the wait.  (A get_state() that raises inside loop() is a failure
\* of the wait's own query, not a stop(), and is not part of this formula.)
C17_StopNeverEnds ==
    [][/\ call["stop"] = "act" /\ call'["stop"] = "idle" /\ state' # state =>
            state' = "Stopped" /\ LoopGuard(state')
       /\ state # "Ended" /\ state' = "Ended" => call' = call
       /\ mainPc = "loop" /\ state # "Ended" => mainPc' # "done"
       /\ ParsedOneOff /\ stopCalls >= 1 => jobs = <<>> /\ jobs' = <<>>]_vars

\* C17's case: the one-off trigger has fired and its stop() has stopped the
\* player; no job is left and the main thread polls on.
C17_Witness ==
    /\ ParsedOneOff
    /\ running
    /\ stopCalls = 1
    /\ call["stop"] = "idle"
    /\ state = "Stopped"
    /\ jobs = <<>>
    /\ mainPc = "loop"

\* C18 (daily window): with a daily window whose start and stop differ and
\* no jumpstart, the player not failing, the player is Playing from the
\* return of the start trigger's function until the stop trigger fires, and
\* not Playing from the return of the stop trigger's function until the start
\* trigger fires.
C18_WindowFollowed ==
    ParsedDaily /\ ~jumpstart /\ argv.start_at # argv.stop_at =>
        /\ phase = "started" => state = "Playing"
        /\ phase = "stopped" => state # "Playing"

====
